---------------------------- MODULE Spec2Model ----------------------------
(***************************************************************************)
(* The chat frontend: the API client adapter (frontend/lib/api.ts), the    *)
(* conversation state store (frontend/app/page.tsx, ChatPage) and the      *)
(* history sidebar's rendering (frontend/components/history-sidebar.tsx).  *)
(*                                                                         *)
(* JavaScript values are tagged records: t is the type, and the payload    *)
(* field depends on it (s: string, n: number, ms: epoch time of a Date,    *)
(* items: array elements).  A JSON object is a record with every field the *)
(* code reads; a field the server omitted holds Undefined, which is what   *)
(* reading a missing property yields.                                      *)
(*                                                                         *)
(* Time is counted in days of January 2024: the instant d is               *)
(* 2024-01-dd T00:00:00Z.                                                  *)
(***************************************************************************)
EXTENDS Integers, Sequences, FiniteSets, TLC

VARIABLES
    sessions,           \* useState<Session[]>       page.tsx:14
    activeSessionId,    \* useState<string|undefined> page.tsx:15
    messages,           \* useState<Message[]>       page.tsx:16
    isLoading,          \* page.tsx:17
    isLoadingSessions,  \* page.tsx:19
    toasts,             \* the notifications surfaced through toast()
    calls,              \* the invocations of the async handlers, in issue order
    now,                \* the clock read by Date.now() / new Date()
    input,              \* an adapter call and the exchange it meets (SpecAdapter)
    output              \* what that call settled with, and what was made of it

vars == <<sessions, activeSessionId, messages, isLoading, isLoadingSessions,
          toasts, calls, now, input, output>>

storeVars == <<sessions, activeSessionId, messages, isLoading,
               isLoadingSessions, toasts, calls>>

-----------------------------------------------------------------------------
(* Bounds of the model.                                                    *)

MaxLen == 3

MaxCalls == 2

MaxClock == 2

-----------------------------------------------------------------------------
(* JavaScript values.                                                      *)

Undefined == [t |-> "undefined"]

Null == [t |-> "null"]

Str(s) == [t |-> "string", s |-> s]

Num(n) == [t |-> "number", n |-> n]

DateOf(ms) == [t |-> "date", ms |-> ms]

InvalidDate == [t |-> "invalidDate"]

Arr(items) == [t |-> "array", items |-> items]

\* x ?? y tests for exactly these two values.
Nullish(v) == v.t \in {"undefined", "null"}

\* ToBoolean: what `x ? a : b`, `x || y`, `x && y` and `!x` test.
Truthy(v) ==
    CASE v.t = "string" -> v.s # ""
      [] v.t = "number" -> v.n # 0
      [] v.t \in {"undefined", "null"} -> FALSE
      [] OTHER -> TRUE

\* String(v), on the values an id can hold.
StringOf(v) ==
    CASE v.t = "string" -> v.s
      [] v.t = "number" -> ToString(v.n)
      [] v.t = "undefined" -> "undefined"
      [] v.t = "null" -> "null"
      [] OTHER -> "[object]"

\* s.slice(0, n)
Slice0(s, n) == SubSeq(s, 1, IF Len(s) < n THEN Len(s) ELSE n)

Pad2(d) == IF d < 10 THEN "0" \o ToString(d) ELSE ToString(d)

\* Date.prototype.toISOString
ToISOString(ms) == "2024-01-" \o Pad2(ms) \o "T00:00:00.000Z"

Char(s, i) == SubSeq(s, i, i)

Digits == "0123456789"

IsDigit(c) == \E i \in 1..10 : Char(Digits, i) = c

DigitVal(c) == (CHOOSE i \in 1..10 : Char(Digits, i) = c) - 1

\* Date.parse on a string: the ISO forms with and without milliseconds
\* parse to their instant, anything else is NaN (an Invalid Date).
IsISODate(s) ==
    /\ Len(s) \in {20, 24}
    /\ SubSeq(s, 1, 8) = "2024-01-"
    /\ IsDigit(Char(s, 9)) /\ IsDigit(Char(s, 10))
    /\ SubSeq(s, 11, Len(s)) \in {"T00:00:00Z", "T00:00:00.000Z"}
    /\ 10 * DigitVal(Char(s, 9)) + DigitVal(Char(s, 10)) \in 1..31

ParseISO(s) == 10 * DigitVal(Char(s, 9)) + DigitVal(Char(s, 10))

\* new Date(v): a Date is copied, a string is parsed.
NewDate(v) ==
    CASE v.t = "date" -> v
      [] v.t = "string" -> IF IsISODate(v.s) THEN DateOf(ParseISO(v.s))
                           ELSE InvalidDate
      [] OTHER -> InvalidDate

-----------------------------------------------------------------------------
(* The API client adapter, frontend/lib/api.ts.  An HTTP exchange is       *)
(* [net, status, body]: net is FALSE when fetch itself rejects (no         *)
(* response), body is what res.json() yields, NotJSON when it rejects.     *)

Fulfilled(v) == [settled |-> "fulfilled", value |-> v]

Rejected(e) == [settled |-> "rejected", error |-> e]

NotJSON == [t |-> "notJSON"]

\* Response.ok
ResOk(res) == res.status \in 200..299

\* The exchange without the res.ok test.
ExchangeAnyStatus(res, failure) ==
    IF ~res.net THEN Rejected("TypeError: fetch failed")
    ELSE IF res.body = NotJSON THEN Rejected("SyntaxError")
    ELSE Fulfilled(res.body)

\* What every adapter function does before it looks at the payload:
\* await fetch(...), the res.ok test, await res.json().
Exchange(res, failure) ==
    IF ~res.net THEN Rejected("TypeError: fetch failed")
    ELSE IF ~ResOk(res) THEN Rejected(failure)
    ELSE IF res.body = NotJSON THEN Rejected("SyntaxError")
    ELSE Fulfilled(res.body)

SendMessage(res) == Exchange(res, "Failed to send message")

\* Array.isArray(data?.field) ? data.field : []
ListField(data, field) ==
    IF data.t = "object" /\ data[field].t = "array" THEN data[field].items
    ELSE <<>>

\* Reading a property of null or undefined throws a TypeError.
AllReadable(items) == \A i \in 1..Len(items) : ~Nullish(items[i])

\* Stands for the Thai literal of api.ts:30 ("new chat"), which is not ASCII.
Placeholder == "<new chat>"

\* The session normalization with updatedAt falling back to the time of
\* the fetch instead of createdAt.
NormalizeSessionUpdatedNow(s, clock) ==
    LET id == IF ~Nullish(s.session_id) THEN s.session_id
              ELSE IF ~Nullish(s.id) THEN s.id ELSE Str("")
        lastMessage == IF Truthy(s.last_message) THEN s.last_message
                       ELSE Undefined
        createdAt == IF Truthy(s.created_at) THEN NewDate(s.created_at)
                     ELSE DateOf(clock)
        updatedAt == IF Truthy(s.last_message_timestamp)
                     THEN NewDate(s.last_message_timestamp)
                     ELSE DateOf(clock)
        title == IF Truthy(lastMessage) THEN lastMessage
                 ELSE IF Truthy(id)
                      THEN Str("Session " \o Slice0(StringOf(id), 8))
                      ELSE Str(Placeholder)
    IN [t |-> "object", id |-> Str(StringOf(id)), title |-> title,
        lastMessage |-> lastMessage, createdAt |-> createdAt,
        updatedAt |-> updatedAt]

NormalizeSession(s, clock) ==
    LET id == IF ~Nullish(s.session_id) THEN s.session_id
              ELSE IF ~Nullish(s.id) THEN s.id ELSE Str("")
        lastMessage == IF Truthy(s.last_message) THEN s.last_message
                       ELSE Undefined
        createdAt == IF Truthy(s.created_at) THEN NewDate(s.created_at)
                     ELSE DateOf(clock)
        updatedAt == IF Truthy(s.last_message_timestamp)
                     THEN NewDate(s.last_message_timestamp)
                     ELSE createdAt
        title == IF Truthy(lastMessage) THEN lastMessage
                 ELSE IF Truthy(id)
                      THEN Str("Session " \o Slice0(StringOf(id), 8))
                      ELSE Str(Placeholder)
    IN [t |-> "object", id |-> Str(StringOf(id)), title |-> title,
        lastMessage |-> lastMessage, createdAt |-> createdAt,
        updatedAt |-> updatedAt]

FetchSessions(res, clock) ==
    LET got == Exchange(res, "Failed to fetch sessions") IN
    IF got.settled = "rejected" THEN got
    ELSE LET rawSessions == ListField(got.value, "sessions") IN
         IF ~AllReadable(rawSessions) THEN Rejected("TypeError")
         ELSE Fulfilled([i \in 1..Len(rawSessions) |->
                            NormalizeSession(rawSessions[i], clock)])

\* The message normalization stamping every message with the current time.
NormalizeMessageRestamped(sessionId, m, idx, clock) ==
    [t |-> "object",
     id |-> IF Truthy(m.id) THEN Str(StringOf(m.id))
            ELSE Str(sessionId \o "-" \o ToString(idx)),
     content |-> IF Nullish(m.content) THEN Str("") ELSE m.content,
     role |-> IF m.role = Str("user") THEN Str("user") ELSE Str("assistant"),
     timestamp |-> Str(ToISOString(clock))]

\* The callback of messages.map; idx is the 0-based array index.
NormalizeMessage(sessionId, m, idx, clock) ==
    [t |-> "object",
     id |-> IF Truthy(m.id) THEN Str(StringOf(m.id))
            ELSE Str(sessionId \o "-" \o ToString(idx)),
     content |-> IF Nullish(m.content) THEN Str("") ELSE m.content,
     role |-> IF m.role = Str("user") THEN Str("user") ELSE Str("assistant"),
     timestamp |-> IF Nullish(m.timestamp) THEN Str(ToISOString(clock))
                   ELSE m.timestamp]

NormalizeMessages(sessionId, raw, clock) ==
    [i \in 1..Len(raw) |-> NormalizeMessage(sessionId, raw[i], i - 1, clock)]

FetchConversation(sessionId, res, clock) ==
    LET got == Exchange(res, "Failed to fetch conversation") IN
    IF got.settled = "rejected" THEN got
    ELSE LET data == got.value
             raw == ListField(data, "messages")
         IN IF ~AllReadable(raw) THEN Rejected("TypeError")
            ELSE Fulfilled(
                   [sessionId |-> IF data.t = "object" /\ ~Nullish(data.session_id)
                                  THEN data.session_id ELSE Str(sessionId),
                    messages |-> NormalizeMessages(sessionId, raw, clock)])

-----------------------------------------------------------------------------
(* The history sidebar, frontend/components/history-sidebar.tsx.           *)

NaN == [t |-> "NaN"]

\* Date.prototype.getTime
GetTime(d) == IF d.t = "date" THEN Num(d.ms) ELSE NaN

\* The comparator with its operands swapped: older first.
CompareUpdatedAtOlderFirst(a, b) ==
    LET x == GetTime(NewDate(a.updatedAt))
        y == GetTime(NewDate(b.updatedAt))
    IN IF x.t = "number" /\ y.t = "number" THEN Num(x.n - y.n) ELSE NaN

\* The comparator of line 56: newer first.
CompareUpdatedAt(a, b) ==
    LET x == GetTime(NewDate(b.updatedAt))
        y == GetTime(NewDate(a.updatedAt))
    IN IF x.t = "number" /\ y.t = "number" THEN Num(x.n - y.n) ELSE NaN

\* Array.prototype.sort reads a NaN from the comparator as +0.
SortCompare(a, b) ==
    LET v == CompareUpdatedAt(a, b) IN IF v.t = "number" THEN v.n ELSE 0

RECURSIVE InsertSorted(_, _, _)
\* x goes after sorted[j] for the largest j whose element does not sort
\* after x: equal elements keep their order (the sort is stable).
InsertSorted(sorted, x, j) ==
    IF j >= 1 /\ SortCompare(sorted[j], x) > 0
    THEN InsertSorted(sorted, x, j - 1)
    ELSE SubSeq(sorted, 1, j) \o <<x>> \o SubSeq(sorted, j + 1, Len(sorted))

RECURSIVE ArraySort(_)
ArraySort(list) ==
    IF Len(list) = 0 THEN <<>>
    ELSE LET front == ArraySort(SubSeq(list, 1, Len(list) - 1))
         IN InsertSorted(front, list[Len(list)], Len(front))

\* What the component renders from its props, and the props array after the
\* render: .slice() copies it first, so .sort() reorders the copy.
HistorySidebar(props, loading) ==
    [view |-> IF loading THEN "spinner"
              ELSE IF Len(props) = 0 THEN "empty" ELSE "list",
     items |-> IF loading \/ Len(props) = 0 THEN <<>> ELSE ArraySort(props),
     sessions |-> props]

-----------------------------------------------------------------------------
(* The remote chat service, as far as the store can tell: the exchanges    *)
(* each request can end in.                                                *)

NetworkFailure == [net |-> FALSE, status |-> 0, body |-> Null]

ServerError == [net |-> TRUE, status |-> 500, body |-> Null]

Success(body) == [net |-> TRUE, status |-> 200, body |-> body]

ISODay(d) == "2024-01-" \o Pad2(d) \o "T00:00:00Z"

RawSession(sessionId, id, lastMessage, createdAt, lastMessageTimestamp) ==
    [t |-> "object", session_id |-> sessionId, id |-> id,
     last_message |-> lastMessage, created_at |-> createdAt,
     last_message_timestamp |-> lastMessageTimestamp]

RawMessage(id, content, role, timestamp) ==
    [t |-> "object", id |-> id, content |-> content, role |-> role,
     timestamp |-> timestamp]

SessionsBody(list) == [t |-> "object", sessions |-> list]

ConversationBody(sessionId, list) ==
    [t |-> "object", session_id |-> sessionId, messages |-> list]

ChatBody(message, response, sessionId) ==
    [t |-> "object", message |-> message, response |-> response,
     session_id |-> sessionId]

\* The sessions the service knows, and the one it opens for a first message.
KnownSessions == {"A", "B"}

NewSessionId == "N"

Contents == {"hello", "again"}

\* GET /sessions: oldest first, as a flat store lists them.
StoreSessionsResponses ==
    { ServerError,
      Success(SessionsBody(Arr(<<
          RawSession(Str("A"), Undefined, Str("first"), Str(ISODay(1)), Undefined),
          RawSession(Str("B"), Undefined, Undefined, Str(ISODay(1)), Str(ISODay(2)))
      >>))) }

\* GET /conversation/{sessionId}
StoreConversationResponses(sessionId) ==
    { ServerError,
      Success(ConversationBody(Str(sessionId), Arr(<<
          RawMessage(Undefined, Str("hi " \o sessionId), Str("user"), Str(ISODay(1)))
      >>))),
      Success(ConversationBody(Str(sessionId), Undefined)) }

\* POST /chat: the service answers under the session it was given, or under
\* a new one.
StoreChatResponses(sessionId) ==
    LET sid == IF Truthy(sessionId) THEN sessionId ELSE Str(NewSessionId) IN
    { NetworkFailure, ServerError,
      Success(ChatBody(Undefined, Str("reply"), sid)),
      Success(ChatBody(Undefined, Str("reply"), Undefined)) }

-----------------------------------------------------------------------------
(* The conversation state store, frontend/app/page.tsx (ChatPage).         *)
(*                                                                         *)
(* calls holds one record per invocation of a handler, in the order they   *)
(* were started: its kind, the await it is suspended at (pc, "done" once   *)
(* it has returned), the sessionId it carries (the argument of             *)
(* loadConversation; for handleSendMessage the activeSessionId its closure *)
(* captured), the invocation awaiting it (parent, 0 for none) and what its *)
(* adapter call settled with.  One step runs a handler from one await to   *)
(* the next: the state updates in between are one batch.                   *)

Pending == [settled |-> "pending"]

NoRequest == [settled |-> "none"]

Call(kind, pc, sessionId, content, parent) ==
    [kind |-> kind, pc |-> pc, sessionId |-> sessionId, content |-> content,
     parent |-> parent, settled |-> Pending]

Idle == [op |-> "none"]

NotApplied == [stage |-> "none"]

\* The handlers started by the user.
UserCalls == Cardinality({i \in 1..Len(calls) : calls[i].kind # "loadSessions"})

\* After the first render and its effect: loadSessions has run to its await.
Init ==
    /\ sessions = <<>>
    /\ activeSessionId = Undefined
    /\ messages = <<>>
    /\ isLoading = FALSE
    /\ isLoadingSessions = TRUE
    /\ toasts = <<>>
    /\ calls = <<Call("loadSessions", "fetchSessions", Undefined, "", 0)>>
    /\ now = 1
    /\ input = Idle
    /\ output = NotApplied

Toast(description) == toasts' = Append(toasts, description)

\* <ChatInput disabled={isLoading}>
ChatInputDisabled == isLoading

UserMessage(content, clock) ==
    [t |-> "object", id |-> Str(ToString(clock)), content |-> Str(content),
     role |-> Str("user"), timestamp |-> DateOf(clock)]

AssistantMessage(response, clock) ==
    [t |-> "object", id |-> Str(ToString(clock + 1)),
     content |-> IF Truthy(response.message) THEN response.message
                 ELSE response.response,
     role |-> Str("assistant"), timestamp |-> DateOf(clock)]

\* handleSendMessage up to `await sendMessage(content, activeSessionId)`.
HandleSendMessage(content) ==
    /\ ~ChatInputDisabled
    /\ UserCalls < MaxCalls
    /\ messages' = Append(messages, UserMessage(content, now))
    /\ isLoading' = TRUE
    /\ calls' = Append(calls, Call("handleSendMessage", "sendMessage",
                                   activeSessionId, content, 0))
    /\ UNCHANGED <<sessions, activeSessionId, isLoadingSessions, toasts, now,
                   input, output>>

\* The test without its second operand: adopt whenever an id comes back.
AdoptsSessionAlways(response, call) == Truthy(response.session_id)

\* `response.session_id && !activeSessionId`, on the closure's activeSessionId.
AdoptsSession(response, call) ==
    Truthy(response.session_id) /\ ~Truthy(call.sessionId)

\* handleSendMessage rolling the optimistic message back in its catch.
SendMessageSettlesRollback(i, res) ==
    LET call == calls[i]
        got == SendMessage(res)
    IN
    /\ call.kind = "handleSendMessage" /\ call.pc = "sendMessage"
    /\ IF got.settled = "fulfilled"
       THEN /\ messages' = Append(messages, AssistantMessage(got.value, now))
            /\ UNCHANGED toasts
            /\ IF AdoptsSession(got.value, call)
               THEN /\ activeSessionId' = got.value.session_id
                    /\ isLoadingSessions' = TRUE
                    /\ calls' = Append(
                          [calls EXCEPT ![i].pc = "loadSessions",
                                        ![i].settled = got],
                          Call("loadSessions", "fetchSessions", Undefined, "", i))
                    /\ UNCHANGED isLoading
               ELSE /\ isLoading' = FALSE
                    /\ calls' = [calls EXCEPT ![i].pc = "done",
                                              ![i].settled = got]
                    /\ UNCHANGED <<activeSessionId, isLoadingSessions>>
       ELSE /\ Toast("Failed to send message")
            /\ messages' = SubSeq(messages, 1, Len(messages) - 1)
            /\ isLoading' = FALSE
            /\ calls' = [calls EXCEPT ![i].pc = "done", ![i].settled = got]
            /\ UNCHANGED <<activeSessionId, isLoadingSessions>>
    /\ UNCHANGED <<sessions, now, input, output>>

\* handleSendMessage from the settlement of sendMessage on: to the await of
\* loadSessions() when the session id is adopted, else through finally.
SendMessageSettles(i, res) ==
    LET call == calls[i]
        got == SendMessage(res)
    IN
    /\ call.kind = "handleSendMessage" /\ call.pc = "sendMessage"
    /\ IF got.settled = "fulfilled"
       THEN /\ messages' = Append(messages, AssistantMessage(got.value, now))
            /\ UNCHANGED toasts
            /\ IF AdoptsSession(got.value, call)
               THEN /\ activeSessionId' = got.value.session_id
                    /\ isLoadingSessions' = TRUE
                    /\ calls' = Append(
                          [calls EXCEPT ![i].pc = "loadSessions",
                                        ![i].settled = got],
                          Call("loadSessions", "fetchSessions", Undefined, "", i))
                    /\ UNCHANGED isLoading
               ELSE /\ isLoading' = FALSE
                    /\ calls' = [calls EXCEPT ![i].pc = "done",
                                              ![i].settled = got]
                    /\ UNCHANGED <<activeSessionId, isLoadingSessions>>
       ELSE /\ Toast("Failed to send message")
            /\ isLoading' = FALSE
            /\ calls' = [calls EXCEPT ![i].pc = "done", ![i].settled = got]
            /\ UNCHANGED <<messages, activeSessionId, isLoadingSessions>>
    /\ UNCHANGED <<sessions, now, input, output>>

\* loadSessions from the settlement of fetchSessions through finally, and,
\* when handleSendMessage awaits it, that handler's finally.
LoadSessionsSettles(i, res) ==
    LET call == calls[i]
        got == FetchSessions(res, now)
        ended == [calls EXCEPT ![i].pc = "done", ![i].settled = got]
    IN
    /\ call.kind = "loadSessions" /\ call.pc = "fetchSessions"
    /\ IF got.settled = "fulfilled"
       THEN sessions' = got.value /\ UNCHANGED toasts
       ELSE Toast("Failed to load conversation history") /\ UNCHANGED sessions
    /\ isLoadingSessions' = FALSE
    /\ IF call.parent # 0
       THEN /\ isLoading' = FALSE
            /\ calls' = [ended EXCEPT ![call.parent].pc = "done"]
       ELSE /\ calls' = ended
            /\ UNCHANGED isLoading
    /\ UNCHANGED <<activeSessionId, messages, now, input, output>>

\* The sessions the sidebar offers to click.
Clickable ==
    LET shown == HistorySidebar(sessions, isLoadingSessions).items
    IN {shown[k].id : k \in 1..Len(shown)}

\* handleSelectSession: loadConversation up to `await fetchConversation`.
HandleSelectSession(sessionId) ==
    /\ sessionId \in Clickable
    /\ UserCalls < MaxCalls
    /\ isLoading' = TRUE
    /\ calls' = Append(calls, Call("loadConversation", "fetchConversation",
                                   sessionId, "", 0))
    /\ UNCHANGED <<sessions, activeSessionId, messages, isLoadingSessions,
                   toasts, now, input, output>>

\* loadConversation emptying the transcript in its catch.
LoadConversationSettlesClearing(i, res) ==
    LET call == calls[i]
        got == FetchConversation(StringOf(call.sessionId), res, now)
    IN
    /\ call.kind = "loadConversation" /\ call.pc = "fetchConversation"
    /\ IF got.settled = "fulfilled"
       THEN /\ messages' = got.value.messages
            /\ activeSessionId' = call.sessionId
            /\ UNCHANGED toasts
       ELSE /\ Toast("Failed to load conversation")
            /\ messages' = <<>>
            /\ UNCHANGED activeSessionId
    /\ isLoading' = FALSE
    /\ calls' = [calls EXCEPT ![i].pc = "done", ![i].settled = got]
    /\ UNCHANGED <<sessions, isLoadingSessions, now, input, output>>

\* loadConversation dropping a response once a later selection was made.
LoadConversationSettlesLatestOnly(i, res) ==
    LET call == calls[i]
        got == FetchConversation(StringOf(call.sessionId), res, now)
        stale == \E j \in (i + 1)..Len(calls) : calls[j].kind = "loadConversation"
    IN
    /\ call.kind = "loadConversation" /\ call.pc = "fetchConversation"
    /\ IF got.settled = "fulfilled"
       THEN /\ IF stale THEN UNCHANGED <<messages, activeSessionId>>
               ELSE /\ messages' = got.value.messages
                    /\ activeSessionId' = call.sessionId
            /\ UNCHANGED toasts
       ELSE /\ Toast("Failed to load conversation")
            /\ UNCHANGED <<messages, activeSessionId>>
    /\ isLoading' = FALSE
    /\ calls' = [calls EXCEPT ![i].pc = "done", ![i].settled = got]
    /\ UNCHANGED <<sessions, isLoadingSessions, now, input, output>>

\* loadConversation from the settlement of fetchConversation through finally.
LoadConversationSettles(i, res) ==
    LET call == calls[i]
        got == FetchConversation(StringOf(call.sessionId), res, now)
    IN
    /\ call.kind = "loadConversation" /\ call.pc = "fetchConversation"
    /\ IF got.settled = "fulfilled"
       THEN /\ messages' = got.value.messages
            /\ activeSessionId' = call.sessionId
            /\ UNCHANGED toasts
       ELSE /\ Toast("Failed to load conversation")
            /\ UNCHANGED <<messages, activeSessionId>>
    /\ isLoading' = FALSE
    /\ calls' = [calls EXCEPT ![i].pc = "done", ![i].settled = got]
    /\ UNCHANGED <<sessions, isLoadingSessions, now, input, output>>

\* handleNewChat forgetting the transcript.
HandleNewChatKeepsMessages ==
    /\ UserCalls < MaxCalls
    /\ activeSessionId' = Undefined
    /\ calls' = Append(calls, [Call("handleNewChat", "done", Undefined, "", 0)
                                  EXCEPT !.settled = NoRequest])
    /\ UNCHANGED <<sessions, messages, isLoading, isLoadingSessions, toasts,
                   now, input, output>>

\* handleNewChat awaits nothing: it returns in the step it starts in.
HandleNewChat ==
    /\ UserCalls < MaxCalls
    /\ activeSessionId' = Undefined
    /\ messages' = <<>>
    /\ calls' = Append(calls, [Call("handleNewChat", "done", Undefined, "", 0)
                                  EXCEPT !.settled = NoRequest])
    /\ UNCHANGED <<sessions, isLoading, isLoadingSessions, toasts, now,
                   input, output>>

\* Time passes between two events.
Tick ==
    /\ now < MaxClock
    /\ now' = now + 1
    /\ UNCHANGED <<storeVars, input, output>>

Next ==
    \/ \E content \in Contents : HandleSendMessage(content)
    \/ \E i \in 1..Len(calls) :
          \E res \in StoreChatResponses(calls[i].sessionId) :
             SendMessageSettles(i, res)
    \/ \E i \in 1..Len(calls) :
          \E res \in StoreSessionsResponses : LoadSessionsSettles(i, res)
    \/ \E sessionId \in Clickable : HandleSelectSession(sessionId)
    \/ \E i \in 1..Len(calls) :
          \E res \in StoreConversationResponses(StringOf(calls[i].sessionId)) :
             LoadConversationSettles(i, res)
    \/ HandleNewChat
    \/ Tick

Spec == Init /\ [][Next]_vars

-----------------------------------------------------------------------------
(* The adapter and the sidebar applied to payloads of every shape: the     *)
(* call and its exchange are drawn at the start, one step applies the      *)
(* adapter function, a second renders the fetched sessions or normalizes   *)
(* the fetched messages once more.                                         *)

SeqsUpTo(S, n) == UNION {[1..k -> S] : k \in 0..n}

\* Sessions that differ in when they were updated: days 1, 2 (from
\* created_at), 3, and the time of the fetch.
TimedSessions ==
    { RawSession(Str("abc123"), Undefined, Str("one"), Str(ISODay(2)), Str(ISODay(1))),
      RawSession(Str("def456"), Undefined, Str("two"), Str(ISODay(2)), Undefined),
      RawSession(Str("ghi789"), Undefined, Str("three"), Str(ISODay(2)), Str(ISODay(3))),
      RawSession(Str("jkl012"), Undefined, Undefined, Undefined, Undefined) }

\* Sessions with every combination of the optional fields given or not.
SparseSessions ==
    { RawSession(sessionId, id, lastMessage, createdAt, lastMessageTimestamp) :
        sessionId \in {Undefined, Str(""), Str("abc123"), Str("0123456789ab")},
        id \in {Undefined, Str("alt-id")},
        lastMessage \in {Undefined, Null, Str(""), Str("hi")},
        createdAt \in {Undefined, Str(""), Str(ISODay(1)), Str(ISODay(2))},
        lastMessageTimestamp \in {Undefined, Null, Str(ISODay(1)), Str(ISODay(3))} }

SessionsBodies ==
    { Null, NotJSON, SessionsBody(Undefined), SessionsBody(Null),
      SessionsBody(Str("oops")), SessionsBody(Arr(<<Null>>)) }
    \cup {SessionsBody(Arr(list)) : list \in SeqsUpTo(TimedSessions, MaxLen)}
    \cup {SessionsBody(Arr(<<s>>)) : s \in SparseSessions}

\* Messages that differ in what fixes their id.
PlacedMessages ==
    { RawMessage(Undefined, Str("no id"), Str("user"), Str(ISODay(1))),
      RawMessage(Str("m1"), Str("with id"), Str("assistant"), Str(ISODay(2))),
      RawMessage(Undefined, Undefined, Undefined, Undefined) }

SparseMessages ==
    { RawMessage(id, content, role, timestamp) :
        id \in {Undefined, Null, Str(""), Str("m1"), Num(7)},
        content \in {Undefined, Null, Str(""), Str("hello")},
        role \in {Undefined, Str("user"), Str("assistant"), Str("system")},
        timestamp \in {Undefined, Null, Str(ISODay(1)), Str("not a date")} }

ConversationBodies(sessionId) ==
    { Null, NotJSON, ConversationBody(Undefined, Undefined),
      ConversationBody(Str(sessionId), Str("oops")),
      ConversationBody(Str(sessionId), Arr(<<Null>>)) }
    \cup {ConversationBody(Str(sessionId), Arr(list)) :
            list \in SeqsUpTo(PlacedMessages, MaxLen)}
    \cup {ConversationBody(Undefined, Arr(<<m>>)) : m \in SparseMessages}

ChatBodies ==
    { NotJSON, ChatBody(Undefined, Str("reply"), Str("A")),
      ChatBody(Str("reply"), Undefined, Undefined) }

\* The exchanges a request can end in, over the bodies of its endpoint.
Exchanges(bodies) ==
    {NetworkFailure}
    \cup {[net |-> TRUE, status |-> status, body |-> body] :
            status \in {200, 201, 404, 500}, body \in bodies}

AdapterInputs ==
    {[op |-> "sendMessage", res |-> res] : res \in Exchanges(ChatBodies)}
    \cup {[op |-> "fetchSessions", res |-> res] : res \in Exchanges(SessionsBodies)}
    \cup UNION {{[op |-> "fetchConversation", sessionId |-> sessionId, res |-> res] :
                   res \in Exchanges(ConversationBodies(sessionId))} :
                 sessionId \in KnownSessions}

InitAdapter ==
    /\ sessions = <<>>
    /\ activeSessionId = Undefined
    /\ messages = <<>>
    /\ isLoading = FALSE
    /\ isLoadingSessions = TRUE
    /\ toasts = <<>>
    /\ calls = <<>>
    /\ now \in 1..MaxClock
    /\ input \in AdapterInputs
    /\ output = NotApplied

Settled(got) == [stage |-> "settled", got |-> got]

ApplySendMessage ==
    /\ input.op = "sendMessage" /\ output = NotApplied
    /\ output' = Settled(SendMessage(input.res))
    /\ UNCHANGED <<storeVars, now, input>>

ApplyFetchSessions ==
    /\ input.op = "fetchSessions" /\ output = NotApplied
    /\ output' = Settled(FetchSessions(input.res, now))
    /\ UNCHANGED <<storeVars, now, input>>

ApplyFetchConversation ==
    /\ input.op = "fetchConversation" /\ output = NotApplied
    /\ output' = Settled(FetchConversation(input.sessionId, input.res, now))
    /\ UNCHANGED <<storeVars, now, input>>

\* <HistorySidebar sessions={sessions} isLoading={false}> on the fetched list.
RenderSidebar ==
    /\ input.op = "fetchSessions" /\ output.stage = "settled"
    /\ output.got.settled = "fulfilled"
    /\ output' = [stage |-> "rendered", got |-> output.got,
                  sidebar |-> HistorySidebar(output.got.value, FALSE)]
    /\ UNCHANGED <<storeVars, now, input>>

\* The normalization of fetchConversation applied to the messages it
\* returned, at the same or a later time.
Renormalize ==
    /\ input.op = "fetchConversation" /\ output.stage = "settled"
    /\ output.got.settled = "fulfilled"
    /\ \E later \in now..MaxClock :
          /\ now' = later
          /\ output' = [stage |-> "renormalized", got |-> output.got,
                        again |-> NormalizeMessages(input.sessionId,
                                      output.got.value.messages, later)]
    /\ UNCHANGED <<storeVars, input>>

NextAdapter ==
    \/ ApplySendMessage
    \/ ApplyFetchSessions
    \/ ApplyFetchConversation
    \/ RenderSidebar
    \/ Renormalize

SpecAdapter == InitAdapter /\ [][NextAdapter]_vars

-----------------------------------------------------------------------------
(* Properties of the adapter and the sidebar, under SpecAdapter.           *)

\* A field the server left out: missing, null, or an empty text.
Absent(v) == Nullish(v) \/ v = Str("")

FetchedSessions == input.op = "fetchSessions" /\ output.stage = "settled"

FetchedConversation == input.op = "fetchConversation" /\ output.stage = "settled"

\* The exchange is a success response carrying JSON.
SuccessResponse == input.res.net /\ input.res.status \in 200..299
                   /\ input.res.body # NotJSON

\* The body carries the list the endpoint documents, its elements objects.
HasList(field) ==
    /\ input.res.body.t = "object"
    /\ input.res.body[field].t = "array"
    /\ \A i \in 1..Len(input.res.body[field].items) :
          input.res.body[field].items[i].t = "object"

Occurrences(list, x) == Cardinality({i \in 1..Len(list) : list[i] = x})

IsPermutation(a, b) ==
    /\ Len(a) = Len(b)
    /\ \A i \in 1..Len(a) : Occurrences(a, a[i]) = Occurrences(b, a[i])

UpdatedDay(session) == session.updatedAt.ms

Descending(list) ==
    \A i, j \in 1..Len(list) : i < j => UpdatedDay(list[i]) >= UpdatedDay(list[j])

\* C5: whatever list of sessions fetchSessions delivered, in whatever order,
\* the sidebar shows a permutation of it that is descending by updatedAt, and
\* the list it was given is left in the order it had.
C5_SidebarNewestFirst ==
    output.stage = "rendered" =>
        /\ IsPermutation(output.sidebar.items, output.got.value)
        /\ Descending(output.sidebar.items)
        /\ output.sidebar.sessions = output.got.value

\* C5 witness: sessions updated on days 1 < 2 < 3, delivered oldest first,
\* are shown as 3, 2, 1.
C5_Witness ==
    /\ output.stage = "rendered"
    /\ Len(output.got.value) = 3
    /\ \A i \in 1..3 : UpdatedDay(output.got.value[i]) = i
    /\ \A i \in 1..3 : UpdatedDay(output.sidebar.items[i]) = 4 - i

SessionAsDocumented(s, n) ==
    /\ n.id.t = "string" /\ n.title.t = "string"
    /\ n.createdAt.t = "date" /\ n.updatedAt.t = "date"
    /\ ~Nullish(s.session_id) => n.id = s.session_id
    /\ IF ~Absent(s.last_message) THEN n.title = s.last_message
       ELSE IF n.id.s # ""
            THEN n.title = Str("Session " \o
                     SubSeq(n.id.s, 1, IF Len(n.id.s) < 8 THEN Len(n.id.s) ELSE 8))
            ELSE n.title = Str(Placeholder)
    /\ ~Absent(s.created_at) => n.createdAt = NewDate(s.created_at)
    /\ IF ~Absent(s.last_message_timestamp)
       THEN n.updatedAt = NewDate(s.last_message_timestamp)
       ELSE n.updatedAt = n.createdAt

\* C6: every raw session of a successful /sessions response, whichever of
\* last_message, created_at and last_message_timestamp it lacks, becomes one
\* complete Session: title = the last message, else "Session " + the first 8
\* characters of a non-empty id, else the placeholder; createdAt = created_at
\* when given; updatedAt = last_message_timestamp when given, else createdAt.
C6_SessionNormalization ==
    (FetchedSessions /\ SuccessResponse /\ HasList("sessions")) =>
        LET raw == input.res.body.sessions.items IN
        /\ output.got.settled = "fulfilled"
        /\ Len(output.got.value) = Len(raw)
        /\ \A i \in 1..Len(raw) : SessionAsDocumented(raw[i], output.got.value[i])

\* C6 witness: {session_id: "abc123", created_at: day 1} has become the
\* session "abc123" titled from its id, updated when it was created.
C6_Witness ==
    /\ FetchedSessions /\ SuccessResponse
    /\ input.res.body = SessionsBody(Arr(<<
            RawSession(Str("abc123"), Undefined, Undefined, Str(ISODay(1)), Undefined)>>))
    /\ output.got = Fulfilled(<<[t |-> "object", id |-> Str("abc123"),
                                 title |-> Str("Session abc123"),
                                 lastMessage |-> Undefined,
                                 createdAt |-> DateOf(1), updatedAt |-> DateOf(1)]>>)

\* A timestamp that is given but is no date.
InvalidTimestamp(v) == v.t = "string" /\ v.s # "" /\ NewDate(v) = InvalidDate

MessageAsDocumented(sessionId, m, idx, n, clock) ==
    /\ IF ~Absent(m.id) THEN n.id = Str(StringOf(m.id))
       ELSE n.id = Str(sessionId \o "-" \o ToString(idx))
    /\ Absent(m.role) => n.role = Str("assistant")
    /\ (Absent(m.timestamp) \/ InvalidTimestamp(m.timestamp))
          => n.timestamp = Str(ToISOString(clock))
    /\ ~Nullish(m.content) => n.content = m.content

\* C7: every raw message at position idx of a successful conversation
\* response keeps a supplied id and otherwise gets "{sessionId}-{idx}", gets
\* the role "assistant" when it has none, and gets the current time as its
\* timestamp when that is absent or invalid; the list keeps length and order.
C7_MessageNormalization ==
    (FetchedConversation /\ SuccessResponse /\ HasList("messages")) =>
        LET raw == input.res.body.messages.items IN
        /\ output.got.settled = "fulfilled"
        /\ Len(output.got.value.messages) = Len(raw)
        /\ \A i \in 1..Len(raw) :
              MessageAsDocumented(input.sessionId, raw[i], i - 1,
                                  output.got.value.messages[i], now)

\* C8: normalizing the messages of a fetched conversation once more, under
\* the same sessionId and positions and at the same or a later time, yields
\* the same messages: id, content, role and timestamp.
C8_NormalizationIdempotent ==
    output.stage = "renormalized" => output.again = output.got.value.messages

\* C8 witness: a message without a timestamp, fetched on day 1 and
\* normalized again on day 2, still carries day 1.
C8_Witness ==
    /\ output.stage = "renormalized" /\ now = 2
    /\ HasList("messages")
    /\ \E i \in 1..Len(output.again) :
          /\ input.res.body.messages.items[i].timestamp = Undefined
          /\ output.again[i].timestamp = Str(ToISOString(1))

\* C9: each adapter function rejects when the HTTP call fails or its status
\* is not a success; fetchSessions and fetchConversation fulfil on a success
\* response whatever optional fields are missing: with an empty sequence
\* when the list is absent or no list, with the documented defaults for an
\* element that gives none of its optional fields.
C9_AdapterFailureBoundary ==
    output.stage = "settled" =>
        /\ (~input.res.net \/ input.res.status \notin 200..299)
              => output.got.settled = "rejected"
        /\ (FetchedSessions /\ SuccessResponse) =>
              /\ HasList("sessions") =>
                    /\ output.got.settled = "fulfilled"
                    /\ \A i \in 1..Len(output.got.value) :
                          input.res.body.sessions.items[i]
                              = RawSession(Undefined, Undefined, Undefined,
                                           Undefined, Undefined)
                          => output.got.value[i]
                              = [t |-> "object", id |-> Str(""),
                                 title |-> Str(Placeholder),
                                 lastMessage |-> Undefined,
                                 createdAt |-> DateOf(now),
                                 updatedAt |-> DateOf(now)]
              /\ (input.res.body.t # "object"
                    \/ input.res.body.sessions.t # "array")
                    => output.got = Fulfilled(<<>>)
        /\ (FetchedConversation /\ SuccessResponse) =>
              /\ HasList("messages") =>
                    /\ output.got.settled = "fulfilled"
                    /\ \A i \in 1..Len(output.got.value.messages) :
                          input.res.body.messages.items[i]
                              = RawMessage(Undefined, Undefined, Undefined, Undefined)
                          => output.got.value.messages[i]
                              = [t |-> "object",
                                 id |-> Str(input.sessionId \o "-" \o ToString(i - 1)),
                                 content |-> Str(""), role |-> Str("assistant"),
                                 timestamp |-> Str(ToISOString(now))]
              /\ (input.res.body.t # "object"
                    \/ input.res.body.messages.t # "array")
                    => /\ output.got.settled = "fulfilled"
                       /\ output.got.value.messages = <<>>

\* C9 witness: a success response whose messages field is no list has
\* fulfilled with an empty conversation.
C9_Witness ==
    /\ FetchedConversation /\ SuccessResponse
    /\ input.res.body = ConversationBody(Str(input.sessionId), Str("oops"))
    /\ output.got = Fulfilled([sessionId |-> Str(input.sessionId),
                               messages |-> <<>>])

-----------------------------------------------------------------------------
(* Properties of the store, under Spec.  A step is told by what it does to *)
(* calls: a handler starts when its record is appended, and the request it *)
(* awaits settles when its pc leaves that request.                         *)

\* This step starts a handler of this kind.
Starts(kind) ==
    /\ Len(calls') > Len(calls)
    /\ calls'[Len(calls) + 1].kind = kind
    /\ calls'[Len(calls) + 1].parent = 0

\* This step handles the settlement of the request call i awaits at pc.
Settles(i, pc) == calls[i].pc = pc /\ calls'[i].pc # pc

LoadCalls == {i \in 1..Len(calls) : calls[i].kind = "loadConversation"}

SendCalls == {i \in 1..Len(calls) : calls[i].kind = "handleSendMessage"}

\* C1: when the fetchConversation of a selection succeeds, the message list
\* becomes the fetched messages and activeSessionId the selected session;
\* when it fails, messages, activeSessionId and sessions stay as they were
\* and one "Failed to load conversation" notification is added.
C1_SelectSession ==
    [][\A i \in LoadCalls : Settles(i, "fetchConversation") =>
         IF calls'[i].settled.settled = "fulfilled"
         THEN /\ messages' = calls'[i].settled.value.messages
              /\ activeSessionId' = calls[i].sessionId
              /\ toasts' = toasts
         ELSE /\ messages' = messages
              /\ activeSessionId' = activeSessionId
              /\ sessions' = sessions
              /\ toasts' = Append(toasts, "Failed to load conversation")]_vars

\* C1 witness: session A was loaded, then the load of session B failed: A's
\* transcript is still shown, and the failure was notified once.
C1_Witness ==
    \E i, j \in LoadCalls :
        /\ i < j
        /\ calls[i].sessionId = Str("A") /\ calls[j].sessionId = Str("B")
        /\ calls[i].settled.settled = "fulfilled"
        /\ calls[j].settled.settled = "rejected"
        /\ activeSessionId = Str("A")
        /\ Len(messages) = 1
        /\ messages = calls[i].settled.value.messages
        /\ toasts = <<"Failed to load conversation">>

\* C2: a send appends a message with the typed content and the role "user"
\* at the end of the list in the step that issues the request; when the
\* request is fulfilled an assistant message with the reply is appended;
\* when it is rejected (no response, or a status that is no success) the
\* list is left as it is, the optimistic message included, and a "Failed to
\* send message" notification is added.
C2_SendMessage ==
    [][/\ Starts("handleSendMessage") =>
            LET call == calls'[Len(calls) + 1] IN
            /\ call.pc = "sendMessage"
            /\ Len(messages') = Len(messages) + 1
            /\ SubSeq(messages', 1, Len(messages)) = messages
            /\ messages'[Len(messages')].content = Str(call.content)
            /\ messages'[Len(messages')].role = Str("user")
       /\ \A i \in SendCalls : Settles(i, "sendMessage") =>
            IF calls'[i].settled.settled = "fulfilled"
            THEN /\ Len(messages') = Len(messages) + 1
                 /\ SubSeq(messages', 1, Len(messages)) = messages
                 /\ messages'[Len(messages')].role = Str("assistant")
                 /\ messages'[Len(messages')].content
                       = calls'[i].settled.value.response
                 /\ toasts' = toasts
            ELSE /\ messages' = messages
                 /\ toasts' = Append(toasts, "Failed to send message")]_vars

\* C2 witness: the send of "hello" was answered with status 500: the user
\* message is the whole list, and the failure was notified.
C2_Witness ==
    \E i \in SendCalls :
        /\ calls[i].settled = Rejected("Failed to send message")
        /\ calls[i].content = "hello"
        /\ Len(messages) = 1
        /\ messages[1].content = Str("hello") /\ messages[1].role = Str("user")
        /\ toasts = <<"Failed to send message">>

\* This step starts the refresh of the session list.
StartsRefresh(i) ==
    /\ Len(calls') = Len(calls) + 1
    /\ calls'[Len(calls')] = Call("loadSessions", "fetchSessions", Undefined, "", i)

\* C3: when a send is fulfilled with a session id and there was no active
\* session when it was issued, activeSessionId becomes the returned id and
\* fetchSessions is issued, whose result then replaces the session list;
\* when there was an active session, activeSessionId stays and no request
\* is issued.
C3_AdoptSession ==
    [][/\ \A i \in SendCalls :
            (Settles(i, "sendMessage") /\ calls'[i].settled.settled = "fulfilled") =>
              LET returned == calls'[i].settled.value.session_id IN
              /\ (calls[i].sessionId = Undefined /\ returned.t = "string"
                    /\ returned.s # "") =>
                    /\ activeSessionId' = returned
                    /\ StartsRefresh(i)
              /\ calls[i].sessionId # Undefined =>
                    /\ activeSessionId' = activeSessionId
                    /\ Len(calls') = Len(calls)
                    /\ sessions' = sessions
       /\ \A i \in 1..Len(calls) :
            (calls[i].kind = "loadSessions" /\ Settles(i, "fetchSessions")
              /\ calls'[i].settled.settled = "fulfilled") =>
                sessions' = calls'[i].settled.value]_vars

\* C3 witness: a first message sent with no active session came back under
\* session N; N is active and the refreshed list is in the store.
C3_Witness ==
    \E i \in SendCalls : \E k \in 1..Len(calls) :
        /\ calls[i].sessionId = Undefined /\ calls[i].pc = "done"
        /\ calls[i].settled.settled = "fulfilled"
        /\ calls[i].settled.value.session_id = Str(NewSessionId)
        /\ activeSessionId = Str(NewSessionId)
        /\ calls[k].kind = "loadSessions" /\ calls[k].parent = i
        /\ calls[k].settled.settled = "fulfilled"
        /\ sessions = calls[k].settled.value /\ Len(sessions) = 2

\* C4: starting a new chat, from any state, leaves activeSessionId undefined
\* and the message list empty, issues no request, and leaves the session
\* list and both loading flags as they were.
C4_NewChat ==
    [][Starts("handleNewChat") =>
         /\ activeSessionId' = Undefined
         /\ messages' = <<>>
         /\ Len(calls') = Len(calls) + 1
         /\ calls'[Len(calls')].pc = "done"
         /\ \A i \in 1..Len(calls) : calls'[i] = calls[i]
         /\ sessions' = sessions
         /\ isLoading' = isLoading
         /\ isLoadingSessions' = isLoadingSessions
         /\ toasts' = toasts]_vars

\* C4 witness: a new chat was started over the loaded transcript of a
\* session: nothing of it is left.
C4_Witness ==
    \E i \in LoadCalls :
        /\ calls[i].settled.settled = "fulfilled"
        /\ Len(calls[i].settled.value.messages) = 1
        /\ calls[Len(calls)].kind = "handleNewChat"
        /\ activeSessionId = Undefined /\ messages = <<>>
        /\ Len(sessions) = 2

\* The transcript and the active session come from one fulfilled selection.
FromOneSelection ==
    \E i \in LoadCalls :
        /\ calls[i].settled.settled = "fulfilled"
        /\ messages = calls[i].settled.value.messages
        /\ activeSessionId = calls[i].sessionId

\* C10: overlapping selections are neither cancelled nor discarded: a
\* selection made while another is in flight leaves that one in flight, and
\* each fulfilled response is applied when it arrives, whichever selection
\* was made first, so the one that resolves last wins; and while selections
\* are all the user has done, the transcript and activeSessionId are those
\* of one and the same response, never one's messages under the other's id.
C10_LastResolvedWins ==
    [][/\ Starts("loadConversation") =>
            \A j \in 1..Len(calls) : calls'[j] = calls[j]
       /\ \A i \in LoadCalls :
            (Settles(i, "fetchConversation")
              /\ calls'[i].settled.settled = "fulfilled") =>
                /\ messages' = calls'[i].settled.value.messages
                /\ activeSessionId' = calls[i].sessionId
                /\ \A j \in 1..Len(calls) : j # i => calls'[j] = calls[j]
       /\ (\A j \in 2..Len(calls') : calls'[j].kind = "loadConversation") =>
            \/ FromOneSelection'
            \/ /\ messages' = <<>> /\ activeSessionId' = Undefined
               /\ \A j \in 2..Len(calls') :
                     calls'[j].settled.settled # "fulfilled"]_vars

\* C10 witness: A was selected, then B; both were fulfilled, and the store
\* shows A, whose response arrived after B's.
C10_Witness ==
    /\ Len(calls) = 3
    /\ calls[2].kind = "loadConversation" /\ calls[2].sessionId = Str("A")
    /\ calls[3].kind = "loadConversation" /\ calls[3].sessionId = Str("B")
    /\ calls[2].settled.settled = "fulfilled"
    /\ calls[3].settled.settled = "fulfilled"
    /\ activeSessionId = Str("A")
    /\ Len(messages) = 1 /\ messages[1].id = Str("A-0")

\* The conversation a send is addressed to: the session that was active when
\* it was issued, else the one the service answered under, else (no answer
\* yet, or none naming a session) the new, still unnamed conversation.
SendTarget(call) ==
    IF call.sessionId # Undefined THEN call.sessionId
    ELSE IF call.settled.settled = "fulfilled"
            /\ Truthy(call.settled.value.session_id)
         THEN call.settled.value.session_id
         ELSE Undefined

\* The send is addressed to this conversation: to the session it targets,
\* or, sent into the new conversation without an answer naming a session,
\* to the session that conversation was named by another such send.
AddressedTo(call, sessionId) ==
    \/ SendTarget(call) = sessionId
    \/ /\ call.sessionId = Undefined /\ SendTarget(call) = Undefined
       /\ \E j \in SendCalls :
             calls[j].sessionId = Undefined /\ SendTarget(calls[j]) = sessionId

\* The message was fetched for this session, or is the user message or the
\* assistant reply of a send addressed to it.
BelongsTo(m, sessionId) ==
    \/ \E i \in LoadCalls :
          /\ calls[i].sessionId = sessionId
          /\ calls[i].settled.settled = "fulfilled"
          /\ \E k \in 1..Len(calls[i].settled.value.messages) :
                calls[i].settled.value.messages[k] = m
    \/ \E i \in SendCalls :
          /\ AddressedTo(calls[i], sessionId)
          /\ \/ m.role = Str("user") /\ m.content = Str(calls[i].content)
             \/ /\ m.role = Str("assistant")
                /\ calls[i].settled.settled = "fulfilled"
                /\ m.content = calls[i].settled.value.response

\* C11: in every reachable state, whatever the interleaving of sends,
\* selections and new chats with their responses, every message of the
\* message list belongs to the conversation activeSessionId names: a reply
\* or a returned session id of a send issued before a switch of session is
\* not applied to another conversation.
C11_MessagesOfActiveSession ==
    \A k \in 1..Len(messages) : BelongsTo(messages[k], activeSessionId)

\* The requests that keep the chat input disabled while they are in flight.
InFlight ==
    {i \in 1..Len(calls) : calls[i].pc \in {"sendMessage", "fetchConversation"}}

\* C12: isLoading is true in every state in which a sendMessage or
\* fetchConversation request of the store has not settled (so that no send
\* can be issued meanwhile), and it is false once every handler has run to
\* its end.
C12_LoadingWhileInFlight ==
    /\ InFlight # {} => isLoading
    /\ (\A i \in 1..Len(calls) : calls[i].pc = "done") => ~isLoading

=============================================================================
